---- MODULE Spec2Model ----
(***************************************************************************)
(* Resumable step orchestrator of the weather ETL pipeline:                *)
(*   src/core/pipeline.py, src/core/step_executor.py,                      *)
(*   src/utils/checkpoints.py, src/utils/state.py.                         *)
(*                                                                         *)
(* The durable state is the checkpoint directory (<step>.done markers),    *)
(* the state directory (one sub-directory of artifact files per step) and  *)
(* the metrics directory (one metadata.json history per step).  A run of   *)
(* execute_pipeline is a process whose position is pc; it can be killed    *)
(* between any two file operations.                                        *)
(*                                                                         *)
(* Besides the runs of execute_pipeline (Spec) the module holds direct     *)
(* calls of get_required_steps on any namespace (SpecPlan), of             *)
(* save_step_data and load_step_data with a concurrent reader (SpecStore), *)
(* and of the process-pool fan-out of the transform step,                  *)
(* src/steps/transform/weather_data_processing.py (SpecFanOut).            *)
(***************************************************************************)
EXTENDS Integers, Sequences, FiniteSets, TLC

(* ------------------------------ bounds --------------------------------- *)
\* number of invocations of execute_pipeline against the namespace
MaxRuns == 3

\* longest step list get_required_steps is called with
MaxSteps == 4

\* most locations _get_parsed_weather_dataframes is called with
MaxItems == 3

\* most calls of create_checkpoint for one step
MaxCalls == 3

(* ------------------------- values and helpers -------------------------- *)
\* Python's None
None == "<None>"

\* a name that is not a step of the pipeline
Bogus == "bogus"

\* config['steps']['execution_order'] of the modelled configuration
ExecutionOrder == <<"extract", "transform", "load">>

Range(seq) == {seq[i] : i \in 1..Len(seq)}

\* list.index, 1-based; 0 when the element is absent (Python: ValueError)
IndexOf(seq, x) ==
  IF x \in Range(seq) THEN CHOOSE i \in 1..Len(seq) : seq[i] = x ELSE 0

\* a comprehension with the test the wrong way round
RECURSIVE Filter_inverted(_, _)
Filter_inverted(seq, keep) ==
  IF seq = <<>> THEN <<>>
  ELSE IF Head(seq) \notin keep
    THEN <<Head(seq)>> \o Filter_inverted(Tail(seq), keep)
  ELSE Filter_inverted(Tail(seq), keep)

\* a comprehension that drops nothing
Filter_keepall(seq, keep) == seq

\* [x for x in seq if x in keep]
RECURSIVE Filter(_, _)
Filter(seq, keep) ==
  IF seq = <<>> THEN <<>>
  ELSE IF Head(seq) \in keep THEN <<Head(seq)>> \o Filter(Tail(seq), keep)
  ELSE Filter(Tail(seq), keep)

\* the keys of the dict a step handler returns, in insertion order; for
\* 'extract' the single JSON document save_step_data writes
OutputFiles(step) ==
  CASE step = "extract" -> <<"raw_data.json">>
    [] step = "transform" -> <<"raw_location.csv", "raw_current.csv",
                              "raw_forecast.csv">>
    [] step = "load" -> <<"load.csv">>
    [] OTHER -> <<"out.csv">>

\* step_functions of execute_step
step_functions == {"extract", "transform", "dq_checks", "analyze", "load"}

\* the registered step names, in the order execute_step lists them
StepNames == <<"extract", "transform", "dq_checks", "analyze", "load">>

\* content of a file: absent, partial (opened for writing, not yet closed)
\* or the complete payload written by run ver
Absent == [st |-> "absent", ver |-> 0]
Partial == [st |-> "partial", ver |-> 0]
Complete(r) == [st |-> "ok", ver |-> r]

\* the files of a state/<step> directory that holds nothing
EmptyDir(step) == [f \in Range(OutputFiles(step)) |-> Absent]

\* config['steps']['dependencies'] : the declared dependencies of each step
Dependencies(kind, ps) ==
  [s \in Range(ps) |->
     CASE kind = "none" -> <<>>
       [] kind = "prev" -> IF IndexOf(ps, s) = 1 THEN <<>>
                           ELSE <<ps[IndexOf(ps, s) - 1]>>
       [] OTHER -> SubSeq(ps, 1, IndexOf(ps, s) - 1)]

DependencyKinds == {"none", "prev", "all"}

VARIABLES
  pipeline_steps,   \* config['steps']['execution_order']
  dependencies,     \* config['steps']['dependencies']
  save_metadata,    \* config['steps'].get('save_metadata', False)
  dirs,             \* which of the pipeline directories exist
  ckpt,             \* steps whose <step>.done marker exists
  stateDir,         \* steps whose state/<step> directory exists
  files,            \* files[step][name] : content of state/<step>/<name>
  metaFile,         \* metaFile[step] : metrics/<step>/metadata.json
  pc,               \* position of the running execute_pipeline, or how it ended
  run,              \* number of invocations so far
  required_steps,   \* the plan of the current run
  idx,              \* position of the step loop in required_steps
  cur,              \* position inside save_step_data / clean_directory
  data,             \* keys of the in-memory data dict and where they came from
  existing_metadata,\* save_step_metadata's in-memory copy of the history
  rm,               \* the state/<step> directory shutil.rmtree is removing
  error,            \* what made the current run fail, None if nothing did
  metaLost,         \* a run was killed after a checkpoint, before the end of
                    \*   that step's metadata write
  invoked,          \* handlers invoked by the current run, in order
  startCkpt,        \* the markers that existed when the current run planned
  cleanupCut,       \* a clean_directory call was cut short (killed or
                    \*   failed) and none has run to its end since
  failed_step,      \* arguments and result of a direct call of
  target_step,      \*   get_required_steps
  result,
  load_step,        \* argument and outcome of a direct call of
  loaded,           \*   load_step_data
  payload,          \* file names of the dict handed to save_step_data, <<>>
                    \*   when no execute_step / save_step_data holds one
  keys,             \* _get_parsed_weather_dataframes: list(data.keys())
  missing,          \* missing[k]: the field data[k] lacks, None if complete
  futures,          \* futures[k]: state of the future submitted for key k
  results,          \* keys whose result was appended to results, in order
  log,              \* logger.error records of the calling process
  exc,              \* the exception on its way to, or handed to, the caller
  fpc,              \* position of the calling thread in the function
  mark_step,        \* the step create_checkpoint is called for, directly
  mark_calls,       \* number of these calls so far
  mark_before       \* the markers before the first of them

vars == <<pipeline_steps, dependencies, save_metadata, dirs, ckpt, stateDir,
          files, metaFile, pc, run, required_steps, idx, cur, data,
          existing_metadata, rm, error, metaLost, invoked, startCkpt,
          cleanupCut,
          failed_step, target_step, result, load_step, loaded, payload,
          keys, missing, futures, results, log, exc, fpc,
          mark_step, mark_calls, mark_before>>

config == <<pipeline_steps, dependencies, save_metadata>>
fs == <<dirs, ckpt, stateDir, files>>
reader == <<load_step, loaded>>
store == <<reader, payload>>
fanout == <<keys, missing, futures, results, log, exc, fpc>>
marking == <<mark_step, mark_calls, mark_before>>
callers == <<failed_step, target_step, result, reader, fanout, marking>>
call == <<callers, payload>>
ghost == <<metaLost, startCkpt, cleanupCut>>

Steps == Range(pipeline_steps)

(* ------------------------ src/utils/checkpoints.py --------------------- *)
\* a check that does not look for absent or empty directories
check_pipeline_state_nocold(ps, ds, done, sdirs) ==
  IF \E i \in 1..Len(ps) : ps[i] \in done
    THEN LET last == CHOOSE i \in 1..Len(ps) :
                       /\ ps[i] \in done
                       /\ \A j \in (i+1)..Len(ps) : ps[j] \notin done
         IN IF ps[last] \notin sdirs THEN <<TRUE, None>>
            ELSE <<FALSE, ps[last]>>
    ELSE <<FALSE, None>>

\* a check that always sends the run back to the beginning
check_pipeline_state_restart(ps, ds, done, sdirs) == <<TRUE, None>>

\* check_pipeline_state: <<run_from_beginning, last_completed>>
check_pipeline_state(ps, ds, done, sdirs) ==
  IF "state" \notin ds \/ "checkpoints" \notin ds THEN <<TRUE, None>>
  ELSE IF sdirs = {} /\ done = {} THEN <<TRUE, None>>
  ELSE IF \E i \in 1..Len(ps) : ps[i] \in done
    THEN LET last == CHOOSE i \in 1..Len(ps) :
                       /\ ps[i] \in done
                       /\ \A j \in (i+1)..Len(ps) : ps[j] \notin done
         IN IF ps[last] \notin sdirs THEN <<TRUE, None>>
            ELSE <<FALSE, ps[last]>>
    ELSE <<FALSE, None>>

Raised == [raised |-> TRUE, plan |-> <<>>]
Returned(p) == [raised |-> FALSE, plan |-> p]

\* a start index behind the last step when every step is done
start_idx_past_end(ps, done, failed) ==
  IF failed # None THEN IndexOf(ps, failed) + 1
  ELSE LET notDone == {i \in 1..Len(ps) : ps[i] \notin done}
       IN IF notDone = {} THEN Len(ps) + 1
          ELSE CHOOSE i \in notDone : \A j \in notDone : i <= j

\* a start index one past the first incomplete step
start_idx_after_incomplete(ps, done, failed) ==
  IF failed # None THEN IndexOf(ps, failed) + 1
  ELSE LET notDone == {i \in 1..Len(ps) : ps[i] \notin done}
       IN IF notDone = {} THEN 0
          ELSE (CHOOSE i \in notDone : \A j \in notDone : i <= j) + 1

\* a start index that restarts at the failed step itself
start_idx_at_failed(ps, done, failed) ==
  IF failed # None THEN IndexOf(ps, failed)
  ELSE LET notDone == {i \in 1..Len(ps) : ps[i] \notin done}
       IN IF notDone = {} THEN 0
          ELSE CHOOSE i \in notDone : \A j \in notDone : i <= j

\* get_required_steps lines 140-153: the 1-based position of the first step
\* of the plan; 0 when no failed_step is given and every step is done
\* (StopIteration)
start_idx(ps, done, failed) ==
  IF failed # None THEN IndexOf(ps, failed) + 1
  ELSE LET notDone == {i \in 1..Len(ps) : ps[i] \notin done}
       IN IF notDone = {} THEN 0
          ELSE CHOOSE i \in notDone : \A j \in notDone : i <= j

\* get_required_steps: the plan, or raised when the call raises ValueError
get_required_steps(ps, ds, done, sdirs, failed, target) ==
  LET st == check_pipeline_state(ps, ds, done, sdirs) IN
  IF st[1]
    THEN IF target # None
           THEN IF target \in Range(ps)
                  THEN Returned(SubSeq(ps, 1, IndexOf(ps, target)))
                  ELSE Raised
           ELSE Returned(ps)
    ELSE
      LET tgt == IF target = None THEN ps[Len(ps)] ELSE target IN
      IF tgt \notin Range(ps) THEN Raised
      ELSE IF failed # None /\ failed \notin Range(ps) THEN Raised
      ELSE
        LET start == start_idx(ps, done, failed)
            end_idx == IndexOf(ps, tgt)
        IN IF start = 0 THEN Returned(ps)
           ELSE IF failed # None THEN Returned(SubSeq(ps, start, end_idx))
           ELSE Returned(Filter(SubSeq(ps, start, end_idx), Range(ps) \ done))

(* -------------------------- src/utils/state.py ------------------------- *)
\* get_previous_state: the step before state in the order, '' if there is none
get_previous_state(state, ps) ==
  IF state \notin Range(ps) THEN ""
  ELSE IF IndexOf(ps, state) = 1 THEN ""
  ELSE ps[IndexOf(ps, state) - 1]

\* load_step_data can return: the JSON document must parse; a CSV directory
\* is globbed, so a missing directory loads as an empty dict
LoadReturns(step) ==
  IF step = "extract"
    THEN files[step]["raw_data.json"].st = "ok"
    ELSE TRUE

\* load_step_data can raise: no or truncated JSON document; a truncated CSV
\* file (pandas raises on an empty file and parses a cut one)
LoadRaises(step) ==
  IF step = "extract"
    THEN files[step]["raw_data.json"].st # "ok"
    ELSE \E f \in DOMAIN files[step] : files[step][f].st = "partial"

\* what load_step_data hands to its caller: an exception, or the dict of
\* the artifacts it read, each with the save that wrote it (0 for a file
\* pandas parsed while it was being written)
LoadFailed == [raised |-> TRUE, data |-> <<>>]
Loaded(d) == [raised |-> FALSE, data |-> d]

\* a load_step_data that reads every step as the JSON document and so finds
\* no table of a step saved as CSV files
load_step_data_document(step) ==
  IF step = "extract" /\ files[step]["raw_data.json"].st = "ok"
    THEN {Loaded([f \in {"raw_data.json"} |-> files[step][f].ver])}
    ELSE {LoadFailed}

\* load_step_data lines 82-101, every outcome the call can have
load_step_data(step) ==
  IF step = "extract"
    THEN IF files[step]["raw_data.json"].st = "ok"
           THEN {Loaded([f \in {"raw_data.json"} |-> files[step][f].ver])}
           ELSE {LoadFailed}
    ELSE LET found == {f \in DOMAIN files[step] : files[step][f].st # "absent"}
             read == [f \in found |-> files[step][f].ver]
         IN IF \E f \in found : files[step][f].st = "partial"
              THEN {LoadFailed, Loaded(read)}
              ELSE {Loaded(read)}

NoData == [s \in Steps |-> "none"]
NoMetadata == [st |-> "absent", hist |-> <<>>]

(* ------------- src/steps/transform/weather_data_processing.py ---------- *)
\* location keys of the raw data, 'city, country'
Cities == <<"Paris, FR", "Rome, IT", "Oslo, NO", "Bern, CH", "Riga, LV">>

\* the fields _combine_weather_data reads from data[key], lines 35, 36, 51
Fields == {"location", "current", "forecast"}

NoException == [type |-> "none", args |-> <<>>]

\* what _combine_weather_data(key, data[key]) raises when data[key] lacks
\* field f: the KeyError of the failed lookup, re-raised at line 67
WorkerException(f) == [type |-> "KeyError", args |-> <<f>>]

\* no call of _get_parsed_weather_dataframes
NoFanOut ==
  /\ keys = <<>>
  /\ missing = <<>>
  /\ futures = <<>>
  /\ results = <<>>
  /\ log = <<>>
  /\ exc = NoException
  /\ fpc = "idle"

\* no direct call of create_checkpoint
NoMarking ==
  /\ mark_step = None
  /\ mark_calls = 0
  /\ mark_before = {}

(* ------------------------------- Init ---------------------------------- *)
InitConfig ==
  /\ pipeline_steps = ExecutionOrder
  /\ \E k \in DependencyKinds : dependencies = Dependencies(k, ExecutionOrder)
  /\ save_metadata \in BOOLEAN

\* no invocation yet
InitProcess(ps) ==
  /\ pc = "idle"
  /\ run = 0
  /\ required_steps = <<>>
  /\ idx = 0
  /\ cur = 0
  /\ data = [s \in Range(ps) |-> "none"]
  /\ existing_metadata = <<>>
  /\ rm = None
  /\ error = None
  /\ metaLost = FALSE
  /\ invoked = <<>>
  /\ startCkpt = {}
  /\ cleanupCut = FALSE

\* before the first invocation: nothing exists on disk
Init ==
  /\ InitConfig
  /\ InitProcess(ExecutionOrder)
  /\ dirs = {}
  /\ ckpt = {}
  /\ stateDir = {}
  /\ files = [s \in Range(ExecutionOrder) |-> EmptyDir(s)]
  /\ metaFile = [s \in Range(ExecutionOrder) |-> NoMetadata]
  /\ failed_step = None
  /\ target_step = None
  /\ result = Returned(<<>>)
  /\ load_step = None
  /\ loaded = LoadFailed
  /\ payload = <<>>
  /\ NoFanOut
  /\ NoMarking

(* ----------------------- src/core/pipeline.py -------------------------- *)
PipelineDirs == {"checkpoints", "state", "output", "metrics"}

Ended == {"idle", "done", "failed", "crashed"}

\* execute_pipeline, lines 89-110: directories, plan, data = {}
StartRun ==
  /\ pc \in Ended
  /\ run < MaxRuns
  /\ run' = run + 1
  /\ dirs' = dirs \cup PipelineDirs
  /\ required_steps' =
       get_required_steps(pipeline_steps, dirs', ckpt, stateDir, None, None).plan
  /\ startCkpt' = ckpt
  /\ data' = NoData
  /\ idx' = 1
  /\ cur' = 0
  /\ invoked' = <<>>
  /\ existing_metadata' = <<>>
  /\ rm' = None
  /\ error' = None
  /\ pc' = "planning"
  /\ UNCHANGED <<config, ckpt, stateDir, files, metaFile, metaLost,
                 cleanupCut, call>>

\* a resume that loads nothing
ToLoad_none == {}

\* the dependencies lines 113-118 load: those of the plan's first step when a
\* marker exists
ToLoad ==
  IF ckpt # {} /\ required_steps # <<>>
    THEN Range(dependencies[required_steps[1]])
    ELSE {}

\* how lines 113-118 can end: every load returns, or required_steps[0] or
\* one of the loads raises
LoadOutcomes ==
  {o \in {"return", "raise"} :
     IF o = "return"
       THEN (ckpt # {} => required_steps # <<>>)
            /\ \A d \in ToLoad : LoadReturns(d)
       ELSE (ckpt # {} /\ required_steps = <<>>)
            \/ \E d \in ToLoad : LoadRaises(d)}

\* lines 113-118
LoadDependencies ==
  /\ pc = "planning"
  /\ \E o \in LoadOutcomes :
       IF o = "return"
         THEN /\ data' = [s \in Steps |->
                            IF s \in ToLoad THEN "loaded" ELSE data[s]]
              /\ pc' = "resolve"
              /\ error' = error
         ELSE /\ data' = data
              /\ pc' = "failed"
              /\ error' = "load"
  /\ UNCHANGED <<config, fs, metaFile, run, required_steps, idx, cur,
                 existing_metadata, rm, invoked, ghost, call>>

\* the step the loop of lines 121-179 is at
step == required_steps[idx]

\* a loop that leaves for line 182 after its first step
AfterStep_early == "cleanup"

\* the loop's continuation: the next step, or line 182 after the last one
AfterStep == IF idx + 1 > Len(required_steps) THEN "cleanup" ELSE "resolve"

\* lines 134-157: data[prev_step_name] is evaluated before execute_step is
\* called
InputResolves ==
  LET prev_step_name == get_previous_state(step, pipeline_steps)
  IN IF prev_step_name = "" THEN TRUE ELSE data[prev_step_name] # "none"

\* lines 134-157 and execute_step line 70: the handler is called
InvokeHandler ==
  /\ pc = "resolve"
  /\ InputResolves
  /\ step \in step_functions
  /\ invoked' = Append(invoked, step)
  /\ pc' = "handler"
  /\ UNCHANGED <<error>>
  /\ UNCHANGED <<config, fs, metaFile, run, required_steps, idx, cur, data,
                 existing_metadata, rm, ghost, call>>

\* line 152: KeyError, the predecessor's output is not in data
ResolveRaise ==
  /\ pc = "resolve"
  /\ ~InputResolves
  /\ pc' = "failed"
  /\ error' = "KeyError"
  /\ UNCHANGED <<config, fs, metaFile, run, required_steps, idx, cur, data,
                 existing_metadata, rm, invoked, ghost, call>>

(* --------------------- src/core/step_executor.py ----------------------- *)
\* an execute_step that goes on to the marker without saving the result
HandlerReturn_nosave ==
  /\ pc = "handler"
  /\ pc' = "checkpoint"
  /\ payload' = OutputFiles(step)
  /\ UNCHANGED <<error>>
  /\ UNCHANGED <<config, fs, metaFile, run, required_steps, idx, cur, data,
                 existing_metadata, rm, invoked, ghost, callers>>

\* execute_step line 70: the handler returns its result, a dict whose keys
\* are fixed by the handler's code
HandlerReturn ==
  /\ pc = "handler"
  /\ pc' = "save"
  /\ cur' = 0
  /\ payload' = OutputFiles(step)
  /\ UNCHANGED <<error>>
  /\ UNCHANGED <<config, fs, metaFile, run, required_steps, idx, data,
                 existing_metadata, rm, invoked, ghost, callers>>

\* an execute_pipeline that swallows the handler's exception and goes on
\* with the next step
HandlerRaise_swallowed ==
  /\ pc = "handler"
  /\ pc' = AfterStep
  /\ idx' = idx + 1
  /\ UNCHANGED <<error>>
  /\ UNCHANGED <<config, fs, metaFile, run, required_steps, cur, data,
                 existing_metadata, rm, invoked, ghost, call>>

\* a failure path that still marks the step done
HandlerRaise_marks ==
  /\ pc = "handler"
  /\ pc' = "failed"
  /\ error' = "handler"
  /\ ckpt' = ckpt \cup {required_steps[idx]}
  /\ UNCHANGED <<config, dirs, stateDir, files, metaFile, run, required_steps,
                 idx, cur, data, existing_metadata, rm, invoked, ghost, call>>

\* execute_step lines 82-85: the handler raises, the exception is re-raised
\* through execute_pipeline lines 187-191
HandlerRaise ==
  /\ pc = "handler"
  /\ pc' = "failed"
  /\ error' = "handler"
  /\ UNCHANGED <<config, fs, metaFile, run, required_steps, idx, cur, data,
                 existing_metadata, rm, invoked, ghost, call>>

\* save_step_data writes the files of payload in order.  cur = 0: the mkdir is
\* next; cur = 2i-1: file i is to be opened; cur = 2i: file i is open
\* (truncated) and its content is to be written.
save_step_data_mkdir ==
  /\ pc = "save"
  /\ cur = 0
  /\ stateDir' = stateDir \cup {step}
  /\ cur' = 1
  /\ UNCHANGED <<error>>
  /\ UNCHANGED <<config, dirs, ckpt, files, metaFile, pc, run, required_steps,
                 idx, data, existing_metadata, rm, invoked, ghost, call>>

save_step_data_open ==
  /\ pc = "save"
  /\ cur > 0
  /\ cur % 2 = 1
  /\ files' = [files EXCEPT ![step][payload[(cur + 1) \div 2]] = Partial]
  /\ cur' = cur + 1
  /\ UNCHANGED <<error>>
  /\ UNCHANGED <<config, dirs, ckpt, stateDir, metaFile, pc, run,
                 required_steps, idx, data, existing_metadata, rm, invoked,
                 ghost, call>>

save_step_data_write ==
  /\ pc = "save"
  /\ cur > 0
  /\ cur % 2 = 0
  /\ files' = [files EXCEPT ![step][payload[cur \div 2]] = Complete(run)]
  /\ cur' = cur + 1
  /\ pc' = IF cur \div 2 = Len(payload) THEN "checkpoint" ELSE "save"
  /\ UNCHANGED <<error>>
  /\ UNCHANGED <<config, dirs, ckpt, stateDir, metaFile, run, required_steps,
                 idx, data, existing_metadata, rm, invoked, ghost, call>>

\* save_step_data lines 61-63: a write fails and the exception propagates
save_step_data_raise ==
  /\ pc = "save"
  /\ pc' = "failed"
  /\ error' = "save"
  /\ payload' = <<>>
  /\ UNCHANGED <<config, fs, metaFile, run, required_steps, idx, cur, data,
                 existing_metadata, rm, invoked, ghost, callers>>

\* a create_checkpoint that also touches the marker of the last step
create_checkpoint_last(done, s) ==
  done \cup {s, pipeline_steps[Len(pipeline_steps)]}

\* a marker that a second call removes again
create_checkpoint_toggle(done, s) ==
  IF s \in done THEN done \ {s} ELSE done \cup {s}

\* a create_checkpoint that replaces the markers by the one of s
create_checkpoint_only(done, s) == {s}

\* a create_checkpoint that touches nothing
create_checkpoint_noop(done, s) == done

\* checkpoints.create_checkpoint: touch <step>.done
create_checkpoint(done, s) == done \cup {s}

\* checkpoints.check_checkpoint: <step>.done exists
check_checkpoint(done, s) == s \in done

\* execute_step lines 74-80 and the assignment data[step] = result
CreateCheckpoint ==
  /\ pc = "checkpoint"
  /\ ckpt' = create_checkpoint(ckpt, step)
  /\ data' = [data EXCEPT ![step] = "fresh"]
  /\ cur' = 0
  /\ IF save_metadata
       THEN pc' = "metadata" /\ idx' = idx
       ELSE pc' = AfterStep /\ idx' = idx + 1
  /\ payload' = <<>>
  /\ UNCHANGED <<error>>
  /\ UNCHANGED <<config, dirs, stateDir, files, metaFile, run, required_steps,
                 existing_metadata, rm, invoked, ghost, callers>>

\* state.log_metadata as execute_pipeline calls it
log_metadata(s, r) == [step |-> s, status |-> "completed", run |-> r]

\* a coordinator that writes the metadata record before the marker exists
save_step_metadata_open_unmarked ==
  /\ pc = "metadata"
  /\ metaFile[step].st # "partial"
  /\ existing_metadata' = Append(metaFile[step].hist, log_metadata(step, run))
  /\ metaFile' = [metaFile EXCEPT ![step] = [st |-> "partial", hist |-> <<>>]]
  /\ ckpt' = ckpt \ {step}
  /\ pc' = "metadata_write"
  /\ UNCHANGED <<error>>
  /\ UNCHANGED <<config, dirs, stateDir, files, run, required_steps, idx, cur,
                 data, rm, invoked, ghost, call>>

\* save_step_metadata lines 165-176: the history is read, the entry appended
\* in memory and the file opened for writing, which truncates it
save_step_metadata_open ==
  /\ pc = "metadata"
  /\ metaFile[step].st # "partial"
  /\ existing_metadata' = Append(metaFile[step].hist, log_metadata(step, run))
  /\ metaFile' = [metaFile EXCEPT ![step] = [st |-> "partial", hist |-> <<>>]]
  /\ pc' = "metadata_write"
  /\ UNCHANGED <<error>>
  /\ UNCHANGED <<config, fs, run, required_steps, idx, cur, data, rm, invoked,
                 ghost, call>>

\* save_step_metadata lines 168-169 and 178-179: a truncated history does
\* not parse, RuntimeError
save_step_metadata_raise ==
  /\ pc = "metadata"
  /\ metaFile[step].st = "partial"
  /\ pc' = "failed"
  /\ error' = "metadata"
  /\ UNCHANGED <<config, fs, metaFile, run, required_steps, idx, cur, data,
                 existing_metadata, rm, invoked, ghost, call>>

\* a coordinator that never drops the predecessor's output
save_step_metadata_write_keep ==
  /\ pc = "metadata_write"
  /\ metaFile' = [metaFile EXCEPT ![step] = [st |-> "ok", hist |-> existing_metadata]]
  /\ existing_metadata' = <<>>
  /\ idx' = idx + 1
  /\ pc' = AfterStep
  /\ UNCHANGED <<error>>
  /\ UNCHANGED <<config, fs, run, required_steps, cur, data, rm, invoked,
                 ghost, call>>

\* save_step_metadata line 176 and execute_pipeline lines 177-179: the
\* history is written, the predecessor's output is dropped from data
save_step_metadata_write ==
  LET prev_step_name == get_previous_state(step, pipeline_steps) IN
  /\ pc = "metadata_write"
  /\ metaFile' = [metaFile EXCEPT ![step] = [st |-> "ok", hist |-> existing_metadata]]
  /\ existing_metadata' = <<>>
  /\ data' = [s \in Steps |-> IF s = prev_step_name THEN "none" ELSE data[s]]
  /\ idx' = idx + 1
  /\ pc' = AfterStep
  /\ UNCHANGED <<error>>
  /\ UNCHANGED <<config, fs, run, required_steps, cur, rm, invoked, ghost,
                 call>>

(* ---------------- state.clean_directory, pipeline line 182 ------------- *)
\* the checkpoint directory is cleaned first: os.remove of one marker, in
\* os.listdir order
clean_directory_remove(s) ==
  /\ pc = "cleanup"
  /\ s \in ckpt
  /\ ckpt' = ckpt \ {s}
  /\ UNCHANGED <<error>>
  /\ UNCHANGED <<config, dirs, stateDir, files, metaFile, pc, run,
                 required_steps, idx, cur, data, existing_metadata, rm,
                 invoked, ghost, call>>

\* a clean_directory that starts on the state directory while markers are
\* still there
clean_directory_unlink_early(s, f) ==
  /\ pc = "cleanup"
  /\ s \in stateDir
  /\ rm \in {None, s}
  /\ files[s][f].st # "absent"
  /\ files' = [files EXCEPT ![s][f] = Absent]
  /\ rm' = s
  /\ UNCHANGED <<error>>
  /\ UNCHANGED <<config, dirs, ckpt, stateDir, metaFile, pc, run,
                 required_steps, idx, cur, data, existing_metadata, invoked,
                 ghost, call>>

\* then the state directory: shutil.rmtree of one step directory unlinks its
\* files one by one ...
clean_directory_unlink(s, f) ==
  /\ pc = "cleanup"
  /\ ckpt = {}
  /\ s \in stateDir
  /\ rm \in {None, s}
  /\ files[s][f].st # "absent"
  /\ files' = [files EXCEPT ![s][f] = Absent]
  /\ rm' = s
  /\ UNCHANGED <<error>>
  /\ UNCHANGED <<config, dirs, ckpt, stateDir, metaFile, pc, run,
                 required_steps, idx, cur, data, existing_metadata, invoked,
                 ghost, call>>

\* ... and then removes the directory
clean_directory_rmdir(s) ==
  /\ pc = "cleanup"
  /\ ckpt = {}
  /\ s \in stateDir
  /\ rm \in {None, s}
  /\ \A f \in DOMAIN files[s] : files[s][f].st = "absent"
  /\ stateDir' = stateDir \ {s}
  /\ rm' = None
  /\ UNCHANGED <<error>>
  /\ UNCHANGED <<config, dirs, ckpt, files, metaFile, pc, run, required_steps,
                 idx, cur, data, existing_metadata, invoked, ghost, call>>

\* clean_directory lines 246-249: os.listdir, os.remove or shutil.rmtree
\* fails; the exception is logged and re-raised through execute_pipeline
\* lines 187-191
clean_directory_raise ==
  /\ pc = "cleanup"
  /\ pc' = "failed"
  /\ error' = "cleanup"
  /\ cleanupCut' = TRUE
  /\ UNCHANGED <<config, fs, metaFile, run, required_steps, idx, cur, data,
                 existing_metadata, rm, invoked, metaLost, startCkpt, call>>

\* a return from inside the step loop
Return_in_loop ==
  /\ pc = "resolve"
  /\ pc' = "done"
  /\ UNCHANGED <<error>>
  /\ UNCHANGED <<config, fs, metaFile, run, required_steps, idx, cur, data,
                 existing_metadata, rm, invoked, ghost, call>>

\* execute_pipeline lines 183-185: both directories are empty, data is
\* returned
Return ==
  /\ pc = "cleanup"
  /\ ckpt = {}
  /\ stateDir = {}
  /\ pc' = "done"
  /\ cleanupCut' = FALSE
  /\ UNCHANGED <<error>>
  /\ UNCHANGED <<config, fs, metaFile, run, required_steps, idx, cur, data,
                 existing_metadata, rm, invoked, metaLost, startCkpt, call>>

\* the process is killed: what is in memory is lost, what is on disk stays
Running == {"planning", "resolve", "handler", "save", "checkpoint",
            "metadata", "metadata_write", "cleanup"}

Crash ==
  /\ pc \in Running
  /\ pc' = "crashed"
  /\ required_steps' = <<>>
  /\ idx' = 0
  /\ cur' = 0
  /\ data' = NoData
  /\ existing_metadata' = <<>>
  /\ rm' = None
  /\ error' = None
  /\ metaLost' = (metaLost \/ pc \in {"metadata", "metadata_write"})
  /\ invoked' = <<>>
  /\ startCkpt' = {}
  /\ cleanupCut' = (cleanupCut \/ pc = "cleanup")
  /\ payload' = <<>>
  /\ UNCHANGED <<config, fs, metaFile, run, callers>>

Next ==
  \/ StartRun
  \/ LoadDependencies
  \/ InvokeHandler
  \/ ResolveRaise
  \/ HandlerReturn
  \/ HandlerRaise
  \/ save_step_data_mkdir
  \/ save_step_data_open
  \/ save_step_data_write
  \/ save_step_data_raise
  \/ CreateCheckpoint
  \/ save_step_metadata_open
  \/ save_step_metadata_raise
  \/ save_step_metadata_write
  \/ \E s \in Steps : clean_directory_remove(s)
  \/ \E s \in Steps : \E f \in DOMAIN files[s] : clean_directory_unlink(s, f)
  \/ \E s \in Steps : clean_directory_rmdir(s)
  \/ clean_directory_raise
  \/ Return
  \/ Crash

Spec == Init /\ [][Next]_vars

(* ------ execute_pipeline re-invoked after every run that failed -------- *)
\* execute_pipeline is invoked once more after a failed or killed run; from
\* invocation MaxRuns on the invocations are no longer told apart
Reinvoke ==
  /\ pc \in {"failed", "crashed"}
  /\ run = MaxRuns
  /\ dirs' = dirs \cup PipelineDirs
  /\ required_steps' =
       get_required_steps(pipeline_steps, dirs', ckpt, stateDir, None, None).plan
  /\ startCkpt' = ckpt
  /\ data' = NoData
  /\ idx' = 1
  /\ cur' = 0
  /\ invoked' = <<>>
  /\ existing_metadata' = <<>>
  /\ rm' = None
  /\ error' = None
  /\ pc' = "planning"
  /\ UNCHANGED <<config, ckpt, stateDir, files, metaFile, run, metaLost,
                 cleanupCut, call>>

\* handlers, writes and removals fail, and the process is killed, only in
\* the first MaxRuns - 1 invocations
Transient == run < MaxRuns

\* the configurations that keep no metadata history: the history grows
\* with every completed step
InitLive == Init /\ ~save_metadata

NextLive ==
  \/ StartRun
  \/ Reinvoke
  \/ LoadDependencies
  \/ InvokeHandler
  \/ ResolveRaise
  \/ HandlerReturn
  \/ Transient /\ HandlerRaise
  \/ save_step_data_mkdir
  \/ save_step_data_open
  \/ save_step_data_write
  \/ Transient /\ save_step_data_raise
  \/ CreateCheckpoint
  \/ \E s \in Steps : clean_directory_remove(s)
  \/ \E s \in Steps : \E f \in DOMAIN files[s] : clean_directory_unlink(s, f)
  \/ \E s \in Steps : clean_directory_rmdir(s)
  \/ Transient /\ clean_directory_raise
  \/ Return
  \/ Transient /\ Crash

\* a started invocation runs on, and a failed run is followed by another
\* invocation
SpecLive == InitLive /\ [][NextLive]_vars /\ WF_vars(NextLive)

(* ------------- get_required_steps called on any namespace -------------- *)
\* the step lists of the calls: the first n registered steps, and the
\* configured execution order
PlanOrders ==
  {SubSeq(StepNames, 1, n) : n \in 1..MaxSteps} \cup {ExecutionOrder}

\* any step list, any content of the two directories, any failed_step and
\* target_step
InitPlan ==
  /\ pipeline_steps \in PlanOrders
  /\ dependencies = Dependencies("none", pipeline_steps)
  /\ save_metadata = FALSE
  /\ InitProcess(pipeline_steps)
  /\ dirs \in SUBSET {"checkpoints", "state"}
  /\ ckpt \in SUBSET Range(pipeline_steps)
  /\ stateDir \in SUBSET Range(pipeline_steps)
  /\ "checkpoints" \notin dirs => ckpt = {}
  /\ "state" \notin dirs => stateDir = {}
  /\ files = [s \in Range(pipeline_steps) |-> EmptyDir(s)]
  /\ metaFile = [s \in Range(pipeline_steps) |-> NoMetadata]
  /\ failed_step \in Range(pipeline_steps) \cup {None, Bogus}
  /\ target_step \in Range(pipeline_steps) \cup {None, Bogus}
  /\ result = Returned(<<>>)
  /\ load_step = None
  /\ loaded = LoadFailed
  /\ payload = <<>>
  /\ NoFanOut
  /\ NoMarking

\* a planner that repairs the namespace: it drops the markers it finds
\* without a state directory
CallGetRequiredSteps_repair ==
  /\ pc = "idle"
  /\ result' = get_required_steps(pipeline_steps, dirs, ckpt, stateDir,
                                  failed_step, target_step)
  /\ ckpt' = ckpt \cap stateDir
  /\ pc' = "called"
  /\ UNCHANGED <<error>>
  /\ UNCHANGED <<config, dirs, stateDir, files, metaFile, run, required_steps,
                 idx, cur, data, existing_metadata, rm, invoked, ghost,
                 failed_step, target_step, store, fanout, marking>>

CallGetRequiredSteps ==
  /\ pc = "idle"
  /\ result' = get_required_steps(pipeline_steps, dirs, ckpt, stateDir,
                                  failed_step, target_step)
  /\ pc' = "called"
  /\ UNCHANGED <<error>>
  /\ UNCHANGED <<config, fs, metaFile, run, required_steps, idx, cur, data,
                 existing_metadata, rm, invoked, ghost, failed_step,
                 target_step, store, fanout, marking>>

NextPlan == CallGetRequiredSteps

SpecPlan == InitPlan /\ [][NextPlan]_vars

(* ------------- save_step_data and load_step_data called directly ------- *)
\* an empty namespace, nothing running
EmptyNamespace ==
  /\ pipeline_steps = ExecutionOrder
  /\ dependencies = Dependencies("none", pipeline_steps)
  /\ save_metadata = FALSE
  /\ InitProcess(pipeline_steps)
  /\ dirs = PipelineDirs
  /\ ckpt = {}
  /\ stateDir = {}
  /\ files = [s \in Range(pipeline_steps) |-> EmptyDir(s)]
  /\ metaFile = [s \in Range(pipeline_steps) |-> NoMetadata]
  /\ metaLost = FALSE
  /\ invoked = <<>>
  /\ startCkpt = {}
  /\ failed_step = None
  /\ target_step = None
  /\ result = Returned(<<>>)
  /\ load_step = None
  /\ loaded = LoadFailed
  /\ payload = <<>>

InitStore == EmptyNamespace /\ NoFanOut /\ NoMarking

\* the dicts save_step_data can be handed for step s: the JSON document of
\* 'extract' is one file whatever the dict holds; any other dict is written
\* as one <name>.csv per key, and its keys are any of the step's names
Payloads(s) ==
  IF s = "extract" THEN {OutputFiles(s)}
  ELSE {Filter(OutputFiles(s), K) : K \in SUBSET Range(OutputFiles(s)) \ {{}}}

\* save_step_data(data, s, state_dir) is called with a dict for step s;
\* run numbers the calls
SaveStepData(s) ==
  /\ pc \in Ended
  /\ run < MaxRuns
  /\ run' = run + 1
  /\ required_steps' = <<s>>
  /\ idx' = 1
  /\ cur' = 0
  /\ error' = None
  /\ pc' = "save"
  /\ payload' \in Payloads(s)
  /\ UNCHANGED <<config, fs, metaFile, data, existing_metadata, rm, invoked,
                 ghost, callers>>

\* save_step_data returns after its last write
SaveStepDataReturn ==
  /\ pc = "checkpoint"
  /\ pc' = "idle"
  /\ UNCHANGED <<error>>
  /\ UNCHANGED <<config, fs, metaFile, run, required_steps, idx, cur, data,
                 existing_metadata, rm, invoked, ghost, call>>

\* load_step_data(s, state_dir, logger) called by a reader, at any moment
LoadStepData(s) ==
  /\ load_step' = s
  /\ loaded' \in load_step_data(s)
  /\ UNCHANGED <<error>>
  /\ UNCHANGED <<config, fs, metaFile, pc, run, required_steps, idx, cur,
                 data, existing_metadata, rm, invoked, ghost, failed_step,
                 target_step, result, payload, fanout, marking>>

NextStore ==
  \/ \E s \in Steps : SaveStepData(s)
  \/ save_step_data_mkdir
  \/ save_step_data_open
  \/ save_step_data_write
  \/ save_step_data_raise
  \/ SaveStepDataReturn
  \/ \E s \in Steps : LoadStepData(s)
  \/ Crash

SpecStore == InitStore /\ [][NextStore]_vars

(* ------ save_step_data and load_step_data, any place of 'extract' ------ *)
\* execution orders in which 'extract' is first, absent, or not first
FormOrders ==
  {ExecutionOrder, <<"transform", "load">>, <<"load", "extract">>}

InitForm ==
  /\ pipeline_steps \in FormOrders
  /\ dependencies = Dependencies("none", pipeline_steps)
  /\ save_metadata = FALSE
  /\ InitProcess(pipeline_steps)
  /\ dirs = PipelineDirs
  /\ ckpt = {}
  /\ stateDir = {}
  /\ files = [s \in Range(pipeline_steps) |-> EmptyDir(s)]
  /\ metaFile = [s \in Range(pipeline_steps) |-> NoMetadata]
  /\ failed_step = None
  /\ target_step = None
  /\ result = Returned(<<>>)
  /\ load_step = None
  /\ loaded = LoadFailed
  /\ payload = <<>>
  /\ NoFanOut
  /\ NoMarking

SpecForm == InitForm /\ [][NextStore]_vars

(* ------------- _get_parsed_weather_dataframes called directly --------- *)
\* everything but the variables of the call
orchestrator == <<config, fs, metaFile, pc, run, required_steps, idx, cur,
                  data, existing_metadata, rm, error, invoked, ghost,
                  failed_step, target_step, result, store, marking>>

Items == Range(keys)

Finished(k) == futures[k] \in {"done", "failed"}

\* the raw data of the call: up to MaxItems locations, each complete or
\* lacking one of the fields
InitFanOut ==
  /\ EmptyNamespace
  /\ NoMarking
  /\ \E n \in 0..MaxItems : keys = SubSeq(Cities, 1, n)
  /\ missing \in [Range(keys) -> Fields \cup {None}]
  /\ futures = [k \in Range(keys) |-> "none"]
  /\ results = <<>>
  /\ log = <<>>
  /\ exc = NoException
  /\ fpc = "pool"

\* line 89: ProcessPoolExecutor(max_workers=len(keys)); ValueError when
\* there is no key, caught at line 112 and re-raised
CreatePool ==
  /\ fpc = "pool"
  /\ IF Len(keys) = 0
       THEN /\ exc' = [type |-> "ValueError", args |-> <<"max_workers">>]
            /\ log' = Append(log, [line |-> 113, key |-> None])
            /\ fpc' = "raised"
       ELSE /\ exc' = exc
            /\ log' = log
            /\ fpc' = "submit"
  /\ UNCHANGED <<keys, missing, futures, results, orchestrator>>

\* line 91: executor.submit for the next key of the comprehension
Submit ==
  /\ fpc = "submit"
  /\ LET i == Cardinality({k \in Items : futures[k] # "none"}) + 1
     IN /\ futures' = [futures EXCEPT ![keys[i]] = "pending"]
        /\ fpc' = IF i = Len(keys) THEN "collect" ELSE "submit"
  /\ UNCHANGED <<keys, missing, results, log, exc, orchestrator>>

\* a worker process takes the call of key k from the queue
WorkerStart(k) ==
  /\ futures[k] = "pending"
  /\ futures' = [futures EXCEPT ![k] = "running"]
  /\ UNCHANGED <<keys, missing, results, log, exc, fpc, orchestrator>>

\* _combine_weather_data lines 33-70 in the worker: returns the three
\* frames, or raises the KeyError of the missing field
WorkerFinish(k) ==
  /\ futures[k] = "running"
  /\ futures' = [futures EXCEPT ![k] = IF missing[k] = None THEN "done"
                                       ELSE "failed"]
  /\ UNCHANGED <<keys, missing, results, log, exc, fpc, orchestrator>>

\* a loop that can be handed the same future twice
Collect_again(k) ==
  /\ fpc = "collect"
  /\ Finished(k)
  /\ IF futures[k] = "done"
       THEN /\ results' = Append(results, k)
            /\ UNCHANGED <<log, exc, fpc>>
       ELSE /\ log' = Append(log, [line |-> 100, key |-> k])
            /\ exc' = WorkerException(missing[k])
            /\ fpc' = "exit"
            /\ UNCHANGED results
  /\ UNCHANGED <<keys, missing, futures, orchestrator>>

\* a loop that re-raises without the error record of line 100
Collect_nolog(k) ==
  /\ fpc = "collect"
  /\ Finished(k)
  /\ k \notin Range(results)
  /\ IF futures[k] = "done"
       THEN /\ results' = Append(results, k)
            /\ UNCHANGED <<log, exc, fpc>>
       ELSE /\ exc' = WorkerException(missing[k])
            /\ fpc' = "exit"
            /\ UNCHANGED <<log, results>>
  /\ UNCHANGED <<keys, missing, futures, orchestrator>>

\* lines 94-101: as_completed yields the future of key k; its result is
\* appended, or its exception is logged with the key and re-raised
Collect(k) ==
  /\ fpc = "collect"
  /\ Finished(k)
  /\ k \notin Range(results)
  /\ IF futures[k] = "done"
       THEN /\ results' = Append(results, k)
            /\ UNCHANGED <<log, exc, fpc>>
       ELSE /\ log' = Append(log, [line |-> 100, key |-> k])
            /\ exc' = WorkerException(missing[k])
            /\ fpc' = "exit"
            /\ UNCHANGED results
  /\ UNCHANGED <<keys, missing, futures, orchestrator>>

\* a concatenation that does not wait for the loop to end
Concat_early ==
  /\ fpc = "collect"
  /\ fpc' = "exit"
  /\ UNCHANGED <<keys, missing, futures, results, log, exc, orchestrator>>

\* lines 105-110: every future was yielded; the frames are concatenated and
\* the return statement leaves the with block
Concat ==
  /\ fpc = "collect"
  /\ Range(results) = Items
  /\ fpc' = "exit"
  /\ UNCHANGED <<keys, missing, futures, results, log, exc, orchestrator>>

\* an executor whose exit does not wait for the running calls
executor_exit_nowait ==
  /\ fpc = "exit"
  /\ IF exc = NoException
       THEN /\ fpc' = "returned"
            /\ log' = log
       ELSE /\ fpc' = "raised"
            /\ log' = Append(log, [line |-> 113, key |-> None])
  /\ UNCHANGED <<keys, missing, futures, results, exc, orchestrator>>

\* line 89, leaving the with block: shutdown(wait=True) returns when every
\* submitted call has finished; then the value is returned, or the
\* exception is logged and re-raised at lines 112-114
executor_exit ==
  /\ fpc = "exit"
  /\ \A k \in Items : Finished(k)
  /\ IF exc = NoException
       THEN /\ fpc' = "returned"
            /\ log' = log
       ELSE /\ fpc' = "raised"
            /\ log' = Append(log, [line |-> 113, key |-> None])
  /\ UNCHANGED <<keys, missing, futures, results, exc, orchestrator>>

NextFanOut ==
  \/ CreatePool
  \/ Submit
  \/ \E k \in Items : WorkerStart(k)
  \/ \E k \in Items : WorkerFinish(k)
  \/ \E k \in Items : Collect(k)
  \/ Concat
  \/ executor_exit

SpecFanOut == InitFanOut /\ [][NextFanOut]_vars

(* ---------------- create_checkpoint called directly -------------------- *)
\* any step list and any set of markers in an existing checkpoint directory
InitMark ==
  /\ pipeline_steps \in PlanOrders
  /\ dependencies = Dependencies("none", pipeline_steps)
  /\ save_metadata = FALSE
  /\ InitProcess(pipeline_steps)
  /\ dirs = PipelineDirs
  /\ ckpt \in SUBSET Range(pipeline_steps)
  /\ stateDir = {}
  /\ files = [s \in Range(pipeline_steps) |-> EmptyDir(s)]
  /\ metaFile = [s \in Range(pipeline_steps) |-> NoMetadata]
  /\ metaLost = FALSE
  /\ invoked = <<>>
  /\ startCkpt = {}
  /\ failed_step = None
  /\ target_step = None
  /\ result = Returned(<<>>)
  /\ load_step = None
  /\ loaded = LoadFailed
  /\ payload = <<>>
  /\ NoFanOut
  /\ NoMarking

\* create_checkpoint(checkpoint_dir, s), once more for the same step
CallCreateCheckpoint(s) ==
  /\ mark_step \in {None, s}
  /\ mark_calls < MaxCalls
  /\ ckpt' = create_checkpoint(ckpt, s)
  /\ mark_step' = s
  /\ mark_calls' = mark_calls + 1
  /\ mark_before' = IF mark_calls = 0 THEN ckpt ELSE mark_before
  /\ UNCHANGED <<config, dirs, stateDir, files, metaFile, pc, run,
                 required_steps, idx, cur, data, existing_metadata, rm, error,
                 invoked, ghost, failed_step, target_step, result, store,
                 fanout>>

NextMark == \E s \in Steps : CallCreateCheckpoint(s)

SpecMark == InitMark /\ [][NextMark]_vars

(* ------------- execute_pipeline on a step list with an unknown name ---- *)
\* an execution order that names a step execute_step has no function for
UnknownOrder == <<"extract", "transform", "profile", "load">>

InitUnknown ==
  /\ pipeline_steps = UnknownOrder
  /\ \E k \in DependencyKinds : dependencies = Dependencies(k, UnknownOrder)
  /\ save_metadata \in BOOLEAN
  /\ InitProcess(UnknownOrder)
  /\ dirs = {}
  /\ ckpt = {}
  /\ stateDir = {}
  /\ files = [s \in Range(UnknownOrder) |-> EmptyDir(s)]
  /\ metaFile = [s \in Range(UnknownOrder) |-> NoMetadata]
  /\ metaLost = FALSE
  /\ invoked = <<>>
  /\ startCkpt = {}
  /\ failed_step = None
  /\ target_step = None
  /\ result = Returned(<<>>)
  /\ load_step = None
  /\ loaded = LoadFailed
  /\ payload = <<>>
  /\ NoFanOut
  /\ NoMarking

\* execute_step line 70: step_functions[step] raises KeyError, which is
\* logged and re-raised at lines 82-85 and pipeline.py 187-191
UnknownStepRaise ==
  /\ pc = "resolve"
  /\ InputResolves
  /\ step \notin step_functions
  /\ pc' = "failed"
  /\ error' = "KeyError"
  /\ UNCHANGED <<config, fs, metaFile, run, required_steps, idx, cur, data,
                 existing_metadata, rm, invoked, ghost, call>>

\* the steps of a run that does not get behind the unknown name
NextUnknown ==
  \/ StartRun
  \/ LoadDependencies
  \/ InvokeHandler
  \/ ResolveRaise
  \/ UnknownStepRaise
  \/ HandlerReturn
  \/ HandlerRaise
  \/ save_step_data_mkdir
  \/ save_step_data_open
  \/ save_step_data_write
  \/ save_step_data_raise
  \/ CreateCheckpoint
  \/ save_step_metadata_open
  \/ save_step_metadata_write
  \/ Crash

SpecUnknown == InitUnknown /\ [][NextUnknown]_vars

TypeOK ==
  /\ pc \in Running \cup {"idle", "done", "failed", "crashed", "called"}
  /\ run \in 0..MaxRuns
  /\ ckpt \subseteq Steps
  /\ stateDir \subseteq Steps

(* ======================= properties of the claims ====================== *)
N == Len(pipeline_steps)

\* the first k steps of the order
Prefix(k) == {pipeline_steps[i] : i \in 1..k}

IsPrefix(a, b) == Len(a) <= Len(b) /\ SubSeq(b, 1, Len(a)) = a

InRun == Running \cup {"done", "failed"}

\* the plan the next invocation of execute_pipeline would compute
PlanNow ==
  get_required_steps(pipeline_steps, dirs \cup PipelineDirs, ckpt, stateDir,
                     None, None).plan

\* state/<s> holds every artifact of one and the same save, completely written
StateComplete(s) ==
  /\ s \in stateDir
  /\ \A f \in DOMAIN files[s] : files[s][f].st = "ok"
  /\ \A f, g \in DOMAIN files[s] : files[s][f].ver = files[s][g].ver

\* a run that found the markers of exactly the first k steps invokes only
\* the handlers of steps k+1..N, in order, and all of them once it is through
ResumesAfter(k) ==
  (pc \in InRun /\ run >= 2 /\ startCkpt = Prefix(k)) =>
    /\ IsPrefix(invoked, SubSeq(pipeline_steps, k + 1, N))
    /\ pc \in {"cleanup", "done"} => invoked = SubSeq(pipeline_steps, k + 1, N)

\* C1 as stated: after an interruption behind step k's checkpoint, for any k
\* in 0..N, the next run invokes exactly the handlers of steps k+1..N, in
\* order, and none of steps 1..k.
C1_Original == \A k \in 0..N : ResumesAfter(k)

\* C1, amended: that holds for k in 0..N-1; for k = N (every step has its
\* checkpoint, cleanup did not run) the next run invokes the handlers of all
\* N steps again, in order.
C1_ResumeInvokesRemainingSteps ==
  /\ \A k \in 0..(N - 1) : ResumesAfter(k)
  /\ (pc \in InRun /\ run >= 2 /\ startCkpt = Steps) =>
       /\ IsPrefix(invoked, pipeline_steps)
       /\ pc \in {"cleanup", "done"} => invoked = pipeline_steps

C1_Witness ==
  /\ pc = "done"
  /\ run >= 2
  /\ startCkpt = Prefix(1)
  /\ invoked = SubSeq(pipeline_steps, 2, N)

\* C2: in every reachable state, a step whose checkpoint marker exists has
\* its complete, last written state record in the State Store.
C2_CheckpointImpliesCompleteState == \A s \in ckpt : StateComplete(s)

\* the plan of the invocation after a handler failure holds no step that
\* has a checkpoint
ResumesPastCompleted ==
  (pc = "failed" /\ error = "handler") =>
    \A t \in ckpt : t \notin Range(PlanNow)

HandlerFailureFrame ==
  /\ [][(pc = "handler" /\ pc' = "failed") =>
          (error' = "handler" /\ UNCHANGED <<ckpt, stateDir, files>>)]_vars
  /\ [][(pc = "failed") =>
          (pc' = "planning" /\ UNCHANGED <<ckpt, stateDir, files>>)]_vars

\* C3 as stated: a handler failure writes no state and no checkpoint, no
\* cleanup follows, earlier checkpoints and state stay, and a later
\* invocation resumes past the completed steps.
C3_Original == HandlerFailureFrame /\ []ResumesPastCompleted

\* C3, amended: the same, except that when every step of the pipeline has a
\* checkpoint at the failure the later invocation plans the full list again;
\* otherwise its plan holds the failed step and no checkpointed step.
C3_HandlerFailureLeavesStoresUnchanged ==
  /\ HandlerFailureFrame
  /\ []((pc = "failed" /\ error = "handler" /\ ckpt # Steps) =>
          /\ \A t \in ckpt : t \notin Range(PlanNow)
          /\ required_steps[idx] \in Range(PlanNow))
  /\ []((pc = "failed" /\ error = "handler" /\ ckpt = Steps) =>
          PlanNow = pipeline_steps)

C3_Witness ==
  /\ pc = "failed"
  /\ error = "handler"
  /\ ckpt # {}
  /\ ckpt # Steps
  /\ required_steps[idx] = pipeline_steps[2]

\* C4: when a handler raises, a record with status 'failed' is appended to
\* that step's metadata history before the run is FAILED.
C4_FailedRecordAppended ==
  (pc = "failed" /\ error = "handler") =>
    LET hist == metaFile[required_steps[idx]].hist IN
    /\ hist # <<>>
    /\ hist[Len(hist)].status = "failed"
    /\ hist[Len(hist)].run = run

HasHistory(s) == metaFile[s].st = "ok" /\ metaFile[s].hist # <<>>

NamespaceEmpty ==
  /\ ckpt = {}
  /\ stateDir = {}
  /\ \A s \in Steps : \A f \in DOMAIN files[s] : files[s][f].st = "absent"

Deletes ==
  \/ ~(ckpt \subseteq ckpt')
  \/ ~(stateDir \subseteq stateDir')
  \/ \E s \in Steps : \E f \in DOMAIN files[s] :
       files[s][f].st # "absent" /\ files'[s][f].st = "absent"

\* C6: cleanup starts only after every step of the plan has completed in
\* this invocation; nothing is deleted outside cleanup, so a failed run
\* deletes no checkpoint and no state entry; cleanup leaves the metadata
\* alone.
C6_CleanupOnlyAfterFullSuccess ==
  /\ [][(pc # "cleanup" /\ pc' = "cleanup") =>
          /\ idx' > Len(required_steps)
          /\ invoked' = required_steps
          /\ Range(required_steps) \subseteq ckpt'
          /\ error' = None]_vars
  /\ [][Deletes => (pc = "cleanup" /\ pc' = "cleanup")]_vars
  /\ [][(pc = "cleanup") =>
          (pc' \in {"done", "failed", "crashed", "cleanup"}
           /\ metaFile' = metaFile)]_vars
  /\ [][(pc' = "failed") => ~Deletes]_vars

C6_Witness ==
  /\ pc = "cleanup"
  /\ ckpt = {}
  /\ stateDir # {}
  /\ stateDir # Steps
  /\ \E s \in Steps : HasHistory(s)

(* ---------------- get_required_steps, SpecPlan ------------------------- *)
Called == pc = "called"

\* index of the step the plan stops at
TargetIndex ==
  IF target_step = None THEN N ELSE IndexOf(pipeline_steps, target_step)

ValidTarget == target_step \in Steps \cup {None}

\* the last step in the order that has a marker
LastDone ==
  pipeline_steps[CHOOSE i \in 1..N :
                   /\ pipeline_steps[i] \in ckpt
                   /\ \A j \in (i + 1)..N : pipeline_steps[j] \notin ckpt]

\* the namespace makes the resolver start over: a directory is absent, both
\* are empty, or the last checkpointed step has no state directory
NamespaceRestarts ==
  \/ "state" \notin dirs
  \/ "checkpoints" \notin dirs
  \/ stateDir = {} /\ ckpt = {}
  \/ ckpt # {} /\ LastDone \notin stateDir

\* C7: whenever some step k has a checkpoint and no state record, the plan
\* is the full list from the beginning up to targetStep, and nothing is
\* raised.
C7_RepairForAnyStep ==
  (Called /\ ValidTarget /\ failed_step # Bogus
          /\ \E k \in ckpt : k \notin stateDir) =>
    result = Returned(SubSeq(pipeline_steps, 1, TargetIndex))

ForcedPlan ==
  Returned(SubSeq(pipeline_steps, IndexOf(pipeline_steps, failed_step) + 1,
                  TargetIndex))

\* C8 as stated: for every checkpoint/state configuration, failedStep =
\* stepK gives exactly the steps index(stepK)+1 .. targetStep.
C8_Original ==
  (Called /\ ValidTarget /\ failed_step \in Steps) => result = ForcedPlan

\* C8, amended: that holds for every configuration in which the resolver
\* does not start over; when it starts over (a directory absent, both empty,
\* or the last checkpointed step without state directory) the plan is the
\* steps from the first one through targetStep whatever failedStep is.
C8_ForcedRestartPlan ==
  (Called /\ ValidTarget /\ failed_step \in Steps) =>
    IF NamespaceRestarts
      THEN result = Returned(SubSeq(pipeline_steps, 1, TargetIndex))
      ELSE result = ForcedPlan

C8_Witness ==
  /\ Called
  /\ N >= 3
  /\ failed_step = pipeline_steps[1]
  /\ target_step = None
  /\ ~NamespaceRestarts
  /\ pipeline_steps[2] \in ckpt
  /\ result.plan = SubSeq(pipeline_steps, 2, N)

\* C9: whenever targetStep or failedStep is given and is no step of the
\* pipeline, get_required_steps raises and returns no plan, for every
\* namespace.
C9_InvalidStepRaises ==
  (Called /\ (target_step \notin Steps \cup {None}
              \/ failed_step \notin Steps \cup {None})) =>
    result.raised

\* C10 as stated: without failedStep the plan holds no step whose
\* checkpoint exists.
C10_Original ==
  (Called /\ failed_step = None /\ ~result.raised) =>
    \A t \in Range(result.plan) : t \notin ckpt

\* C10, amended: without failedStep the plan holds no step whose checkpoint
\* exists, unless the resolver starts over (a directory absent, or the last
\* checkpointed step without state directory) or every step already has a
\* checkpoint; in those cases the plan starts again at the first step (and
\* is the whole list when every step has a checkpoint).
C10_PlanSkipsCheckpointedSteps ==
  (Called /\ failed_step = None /\ ~result.raised) =>
    IF NamespaceRestarts
      THEN result.plan = SubSeq(pipeline_steps, 1, TargetIndex)
      ELSE IF ckpt = Steps
        THEN result.plan = pipeline_steps
        ELSE \A t \in Range(result.plan) : t \notin ckpt

C10_Witness ==
  /\ Called
  /\ N = 3
  /\ failed_step = None
  /\ target_step = None
  /\ ~NamespaceRestarts
  /\ ckpt = {pipeline_steps[2]}
  /\ result.plan = <<pipeline_steps[1], pipeline_steps[3]>>

\* the namespace is new: a directory is absent or both are empty
ColdStart ==
  \/ "state" \notin dirs
  \/ "checkpoints" \notin dirs
  \/ stateDir = {} /\ ckpt = {}

\* C11: when the checkpoint or the state directory is absent, or both are
\* empty, get_required_steps returns the steps from the first one through
\* targetStep, in order, and the whole list when targetStep is not given.
C11_ColdStartPlan ==
  (Called /\ ValidTarget /\ ColdStart) =>
    result = Returned(SubSeq(pipeline_steps, 1, TargetIndex))

C11_Witness ==
  /\ Called
  /\ pipeline_steps = ExecutionOrder
  /\ dirs = {"checkpoints", "state"}
  /\ ckpt = {}
  /\ stateDir = {}
  /\ failed_step = None
  /\ target_step = None
  /\ result = Returned(<<"extract", "transform", "load">>)

\* the namespace holds something and every marker has its state directory
NonEmptyConsistent ==
  /\ dirs = {"checkpoints", "state"}
  /\ ckpt # {} \/ stateDir # {}
  /\ ckpt \subseteq stateDir

\* position of the first step without marker
FirstNotDone ==
  CHOOSE i \in 1..N :
    /\ pipeline_steps[i] \notin ckpt
    /\ \A j \in 1..(i - 1) : pipeline_steps[j] \in ckpt

\* C12: on a non-empty, consistent namespace, without failedStep and with
\* at least one step without checkpoint, the plan is exactly the steps
\* between the first un-checkpointed step and targetStep (default: the last
\* step) that have no checkpoint, in pipeline order.
C12_UnforcedResumePlan ==
  (Called /\ ValidTarget /\ failed_step = None /\ NonEmptyConsistent
          /\ ckpt # Steps) =>
    LET want == {i \in FirstNotDone..TargetIndex : pipeline_steps[i] \notin ckpt}
        plan == result.plan
    IN /\ ~result.raised
       /\ Len(plan) = Cardinality(want)
       /\ \A j \in 1..Len(plan) : IndexOf(pipeline_steps, plan[j]) \in want
       /\ \A j, k \in 1..Len(plan) :
            j < k => IndexOf(pipeline_steps, plan[j])
                       < IndexOf(pipeline_steps, plan[k])

C12_Witness ==
  /\ Called
  /\ N = 4
  /\ NonEmptyConsistent
  /\ failed_step = None
  /\ target_step = pipeline_steps[3]
  /\ ckpt = {pipeline_steps[1]}
  /\ result = Returned(<<pipeline_steps[2], pipeline_steps[3]>>)

\* C13: when every step of the pipeline has a checkpoint and its state
\* directory and no failedStep is given, get_required_steps returns the full
\* step list.
C13_AllDonePlansFullList ==
  (Called /\ ValidTarget /\ failed_step = None /\ NonEmptyConsistent
          /\ ckpt = Steps) =>
    result = Returned(pipeline_steps)

C13_Witness ==
  /\ Called
  /\ pipeline_steps = ExecutionOrder
  /\ NonEmptyConsistent
  /\ ckpt = Steps
  /\ failed_step = None
  /\ target_step = "transform"
  /\ result = Returned(<<"extract", "transform", "load">>)

(* ------------------------- execute_pipeline, Spec ---------------------- *)
\* state/<s> and the marker of s were completely written by the current run
CompletedInRun(s) ==
  /\ s \in ckpt
  /\ StateComplete(s)
  /\ \A f \in DOMAIN files[s] : files[s][f].ver = run

\* C14: within one run the handlers are invoked one at a time in plan
\* order, and when the handler of a step is invoked the state write and the
\* checkpoint write of every earlier step of the plan have completed.
C14_StepsStrictlySequential ==
  [][(pc # "handler" /\ pc' = "handler") =>
       /\ invoked' = SubSeq(required_steps, 1, Len(invoked) + 1)
       /\ \A j \in 1..Len(invoked) : CompletedInRun(required_steps[j])]_vars

C14_Witness ==
  /\ pc = "handler"
  /\ invoked = <<"extract", "transform", "load">>
  /\ CompletedInRun("extract")
  /\ CompletedInRun("transform")

(* ------------------ save_step_data, load_step_data, SpecStore ---------- *)
\* the State Store holds nothing for step s
NoRecord(s) ==
  /\ s \notin stateDir
  /\ \A f \in DOMAIN files[s] : files[s][f].st = "absent"

\* C15: load_step_data fails, for the first step and for every tabular step
\* alike, whenever no state record exists for the step; it never returns an
\* empty payload for a step that was never saved.
C15_LoadOfMissingRecordFails ==
  (load_step # None /\ NoRecord(load_step)) => loaded.raised

\* the dict load_step_data returns for a record save number v wrote in full
CompleteRecord(s, v) == Loaded([f \in Range(OutputFiles(s)) |-> v])

\* C16: save_step_data is atomic for a reader: whenever load_step_data is
\* called, during a save or after a crash, it finds no record or it returns
\* the complete record of one save, never a subset of the artifacts, a mix
\* of two saves or a partly written artifact.
C16_SaveIsAtomic ==
  (load_step # None) =>
    \/ loaded = LoadFailed
    \/ loaded = Loaded(<<>>)
    \/ \E v \in 1..run : loaded = CompleteRecord(load_step, v)

(* ---------------------- save_step_metadata, Spec ----------------------- *)
\* C17: a step's metadata history is append-only across runs, resumes and
\* cleanups: when a save_step_metadata call is over the file holds the
\* history it found plus the new entry in last place (the history it found
\* if the call did not get through), and nothing else changes a history.
C17_MetadataAppendOnly ==
  /\ [][(pc = "metadata_write" /\ pc' # "metadata_write") =>
          LET before == SubSeq(existing_metadata, 1,
                               Len(existing_metadata) - 1)
          IN metaFile'[step].hist \in {before, existing_metadata}]_vars
  /\ [][(pc \notin {"metadata", "metadata_write"}) =>
          metaFile' = metaFile]_vars

(* -------------- _get_parsed_weather_dataframes, SpecFanOut ------------- *)
\* the items whose worker call raises
Failing == {k \in Items : missing[k] # None}

\* the keys the calling process logged at line 100
LoggedKeys == {log[i].key : i \in 1..Len(log)} \ {None}

\* C18: when several items fail, the failure handed to the caller reports
\* every failing item's key (here: in the arguments of the exception or, at
\* least, in the error records written with it).
C18_AllFailuresSummarized ==
  (fpc = "raised" /\ Cardinality(Failing) >= 2) =>
    Failing \subseteq (Range(exc.args) \cup LoggedKeys)

\* C19: a failure cancels no sibling and reaches the caller only after
\* every submitted item has finished: when the exception is raised to the
\* caller every item with complete data has returned and every other item
\* has failed, and no pending or running call is ever dropped.
C19_FailureWaitsForSiblings ==
  /\ []((fpc = "raised" /\ Items # {}) =>
          \A k \in Items :
            futures[k] = IF missing[k] = None THEN "done" ELSE "failed")
  /\ [][\A k \in Items :
          futures'[k] # futures[k] =>
            <<futures[k], futures'[k]>> \in
              {<<"none", "pending">>, <<"pending", "running">>,
               <<"running", "done">>, <<"running", "failed">>}]_vars

C19_Witness ==
  /\ fpc = "raised"
  /\ Len(keys) = 3
  /\ Failing = {keys[1]}
  /\ results = <<>>
  /\ futures[keys[2]] = "done"
  /\ futures[keys[3]] = "done"

C21_ReturnsOnlyAfterFullSuccess ==
  /\ [][(pc' = "done") => pc \in {"cleanup", "done"}]_vars
  /\ [][(pc # "cleanup" /\ pc' = "cleanup") =>
          /\ invoked' = required_steps
          /\ \A j \in 1..Len(required_steps) :
               CompletedInRun(required_steps[j])']_vars
  /\ [](pc = "done" => (error = None /\ NamespaceEmpty))
  /\ [][(pc = "handler" /\ pc' \notin {"handler", "save", "crashed"}) =>
          (pc' = "failed" /\ error' = "handler")]_vars
  /\ [][(pc = "failed") => (pc' = "planning" /\ run' = run + 1)]_vars
  /\ [](pc = "failed" => error # None)

C21_Witness ==
  /\ pc = "done"
  /\ run = 2
  /\ invoked = <<"transform", "load">>
  /\ NamespaceEmpty

\* C22: when a run starts and a checkpoint exists, the complete state record
\* of every declared dependency of the plan's first step is in the working
\* data set before the first handler is invoked, and nothing else is; when
\* no checkpoint exists nothing is loaded.
C22_DependenciesLoadedOnResume ==
  /\ [][(pc = "planning" /\ pc' = "resolve") =>
          LET deps == Range(dependencies[required_steps[1]]) IN
          /\ invoked = <<>>
          /\ IF ckpt = {}
               THEN data' = NoData
               ELSE /\ \A d \in deps : data'[d] = "loaded" /\ StateComplete(d)
                    /\ \A d \in Steps \ deps : data'[d] = "none"]_vars
  /\ [][(pc' = "handler" /\ pc = "resolve" /\ idx = 1) =>
          \A d \in Steps : data[d] # "fresh"]_vars
  /\ [][(pc' = "resolve" /\ idx' = 1) => pc \in {"planning", "resolve"}]_vars

C22_Witness ==
  /\ pc = "handler"
  /\ invoked = <<"load">>
  /\ ckpt = {"extract", "transform"}
  /\ data["extract"] = "loaded"
  /\ data["transform"] = "loaded"

\* C23: whenever the coordinator is about to invoke the handler of a planned
\* step, the input resolves: the step is the first of the pipeline, or the
\* output of its immediate predecessor is in the working data set, produced
\* in this invocation if the predecessor ran in it, loaded from the State
\* Store otherwise.
C23_InputAlwaysResolves ==
  (pc = "resolve") =>
    LET prev_step_name == get_previous_state(step, pipeline_steps) IN
    IF prev_step_name = "" THEN TRUE
    ELSE IF prev_step_name \in Range(invoked)
      THEN data[prev_step_name] = "fresh"
      ELSE data[prev_step_name] = "loaded"

\* the loop of lines 121-179 has finished step s and goes on
StepSucceeds(s) ==
  /\ pc \in {"checkpoint", "metadata_write"}
  /\ pc' \in {"resolve", "cleanup"}
  /\ s = step

\* the last entry of the metadata history of s is the 'completed' record of
\* the current run
CompletedRecorded(s) ==
  /\ metaFile[s].st = "ok"
  /\ metaFile[s].hist # <<>>
  /\ metaFile[s].hist[Len(metaFile[s].hist)] = log_metadata(s, run)

\* the output of the predecessor of s, if s has one, is not in data
PredecessorReleased(s) ==
  LET prev_step_name == get_previous_state(s, pipeline_steps) IN
  IF prev_step_name = "" THEN TRUE ELSE data[prev_step_name] = "none"

\* state save, then checkpoint, then metadata, then release
EffectsInOrder ==
  /\ [][(ckpt' # ckpt /\ pc # "cleanup") =>
          \E s \in Steps :
            /\ s = step /\ ckpt' = ckpt \cup {s}
            /\ StateComplete(s)
            /\ \A f \in DOMAIN files[s] : files[s][f].ver = run]_vars
  /\ [][(metaFile' # metaFile) => step \in ckpt]_vars
  /\ [][\A s \in Steps :
          (pc \in {"checkpoint", "metadata", "metadata_write"}
           /\ pc' # "crashed" /\ data[s] # "none" /\ data'[s] = "none") =>
            \E t \in Steps : t = step /\ CompletedRecorded(t)']_vars

\* C24 as stated: for every step that succeeds the coordinator saves the
\* state, creates the checkpoint, appends a 'completed' metadata record and
\* then removes the predecessor's output from the data set, in this order,
\* all four for every successful step.
C24_Original ==
  /\ EffectsInOrder
  /\ [][\A s \in Steps : StepSucceeds(s) =>
          /\ CompletedInRun(s)'
          /\ CompletedRecorded(s)'
          /\ PredecessorReleased(s)']_vars

\* C24, amended: for every step that succeeds the coordinator saves the
\* state and then creates the checkpoint; only when save_metadata is
\* enabled in the configuration does it then append the 'completed' record
\* and after that remove the output of the step's predecessor (if the step
\* has one); with save_metadata disabled neither happens and the
\* predecessor's output stays in the data set.
C24_EffectsOfSuccessfulStep ==
  /\ EffectsInOrder
  /\ [][\A s \in Steps : StepSucceeds(s) =>
          /\ CompletedInRun(s)'
          /\ IF save_metadata
               THEN CompletedRecorded(s)' /\ PredecessorReleased(s)'
               ELSE /\ metaFile' = metaFile
                    /\ \A t \in Steps \ {s} : data'[t] = data[t]]_vars

C24_Witness ==
  /\ pc = "resolve"
  /\ save_metadata
  /\ invoked = <<"extract", "transform">>
  /\ CompletedInRun("transform")
  /\ CompletedRecorded("transform")
  /\ data["extract"] = "none"
  /\ data["transform"] = "fresh"

\* the steps whose output line 178 deletes during the run of plan p
Released(p) ==
  {get_previous_state(p[j], pipeline_steps) : j \in 1..Len(p)} \ {""}

\* the dependencies the run loaded at lines 113-118
LoadedAtStart ==
  IF startCkpt # {} /\ required_steps # <<>>
    THEN Range(dependencies[required_steps[1]])
    ELSE {}

\* C25 as stated: on success execute_pipeline returns a map that holds the
\* output of every step executed in this invocation and the dependency
\* data loaded at resume.
C25_Original ==
  (pc = "done") =>
    /\ \A s \in Range(invoked) : data[s] = "fresh"
    /\ \A d \in LoadedAtStart : data[d] = "loaded"

\* C25, amended: with save_metadata disabled the returned map holds the
\* output of every step executed in this invocation and the dependency
\* data loaded at resume; with save_metadata enabled it holds them except
\* the entry of every step that is the immediate predecessor of an executed
\* step, which was deleted.  The map holds nothing else.
C25_ReturnedMap ==
  (pc = "done") =>
    \A s \in Steps :
      data[s] =
        IF save_metadata /\ s \in Released(invoked) THEN "none"
        ELSE IF s \in Range(invoked) THEN "fresh"
        ELSE IF s \in LoadedAtStart THEN "loaded"
        ELSE "none"

C25_Witness ==
  /\ pc = "done"
  /\ save_metadata
  /\ invoked = <<"load">>
  /\ data = [s \in Steps |-> IF s = "extract" THEN "loaded"
                               ELSE IF s = "load" THEN "fresh" ELSE "none"]

\* the states of a run
Phase(p) ==
  CASE p = "idle" -> "INIT"
    [] p = "planning" -> "PLANNING"
    [] p \in {"resolve", "handler", "save", "checkpoint", "metadata",
              "metadata_write"} -> "EXECUTING_STEP"
    [] p = "cleanup" -> "CLEANUP"
    [] p = "done" -> "DONE"
    [] p = "failed" -> "FAILED"
    [] OTHER -> "KILLED"

\* a new invocation starts
Restart ==
  /\ pc \in Ended
  /\ pc' = "planning"
  /\ run' = run + 1
  /\ invoked' = <<>>
  /\ UNCHANGED <<ckpt, stateDir, files>>

\* INIT, PLANNING, EXECUTING_STEP*, CLEANUP, DONE; a run can be killed
\* anywhere; from DONE, FAILED and KILLED only a new invocation follows
PhaseOrder ==
  [][(pc' # pc) =>
       \/ Restart
       \/ pc \in Running /\ pc' = "crashed"
       \/ <<Phase(pc), Phase(pc')>> \in
            {<<"PLANNING", "EXECUTING_STEP">>,
             <<"EXECUTING_STEP", "EXECUTING_STEP">>,
             <<"EXECUTING_STEP", "CLEANUP">>,
             <<"CLEANUP", "DONE">>,
             <<"PLANNING", "FAILED">>,
             <<"EXECUTING_STEP", "FAILED">>,
             <<"CLEANUP", "FAILED">>}]_vars

\* after FAILED nothing of the run goes on
FailedIsFinal ==
  [][(pc = "failed") => (Restart /\ pc' = "planning")]_vars

\* C26 as stated: every run follows INIT, PLANNING, EXECUTING_STEP*,
\* CLEANUP, DONE; FAILED is entered only from an EXECUTING_STEP, never
\* from PLANNING or CLEANUP; after FAILED no handler is invoked and no
\* cleanup happens.
C26_Original ==
  /\ PhaseOrder
  /\ FailedIsFinal
  /\ [][(pc # "failed" /\ pc' = "failed") =>
          Phase(pc) = "EXECUTING_STEP"]_vars

\* C26, amended: every run follows INIT, PLANNING, EXECUTING_STEP*,
\* CLEANUP, DONE; FAILED is entered from an EXECUTING_STEP, from CLEANUP
\* when clean_directory raises (some markers or state entries may then
\* already be deleted), or from PLANNING when a dependency load raises;
\* after FAILED no handler is invoked and no cleanup happens.
C26_RunStateMachine ==
  /\ PhaseOrder
  /\ FailedIsFinal
  /\ [][(pc # "failed" /\ pc' = "failed") =>
          /\ Phase(pc) \in {"PLANNING", "EXECUTING_STEP", "CLEANUP"}
          /\ error' = CASE pc = "planning" -> "load"
                         [] pc = "resolve" -> "KeyError"
                         [] pc = "handler" -> "handler"
                         [] pc = "save" -> "save"
                         [] pc = "cleanup" -> "cleanup"
                         [] OTHER -> "metadata"]_vars

C26_Witness ==
  /\ pc = "failed"
  /\ error = "cleanup"
  /\ invoked = pipeline_steps
  /\ ckpt = {"transform"}
  /\ stateDir = Steps

\* C27: across any sequence of runs no marker is removed by planning, step
\* execution, re-execution or failure handling: markers are only removed,
\* one at a time, by the cleanup at the end of a run in which every step of
\* the plan has succeeded.
C27_MarkersOnlyRemovedByCleanup ==
  /\ [][~(ckpt \subseteq ckpt') =>
          /\ pc = "cleanup"
          /\ pc' = "cleanup"
          /\ invoked = required_steps
          /\ error = None
          /\ \E s \in ckpt : ckpt' = ckpt \ {s}]_vars
  /\ [][(pc # "cleanup" /\ pc' = "cleanup") =>
          /\ Phase(pc) = "EXECUTING_STEP"
          /\ Range(required_steps) \subseteq ckpt'
          /\ startCkpt \subseteq ckpt']_vars

C27_Witness ==
  /\ pc = "cleanup"
  /\ run = 3
  /\ startCkpt = {"extract", "transform"}
  /\ ckpt = {"extract"}

(* ------------------------ create_checkpoint, SpecMark ------------------ *)
\* C28: create_checkpoint is idempotent: after one call or any number of
\* calls for the same step the markers are those that existed before plus
\* the marker of that step, and check_checkpoint of the step is true.
C28_CreateCheckpointIdempotent ==
  (mark_calls >= 1) =>
    /\ ckpt = mark_before \cup {mark_step}
    /\ check_checkpoint(ckpt, mark_step)
    /\ \A t \in Steps \ {mark_step} :
         check_checkpoint(ckpt, t) = check_checkpoint(mark_before, t)

C28_Witness ==
  /\ mark_calls = MaxCalls
  /\ Len(pipeline_steps) >= 3
  /\ mark_step = pipeline_steps[2]
  /\ mark_before = {pipeline_steps[1]}
  /\ ckpt = {pipeline_steps[1], pipeline_steps[2]}

(* --------------------- unknown step name, SpecUnknown ------------------ *)
\* C29: when the step list holds a name with no registered handler, no
\* handler of any step is invoked and no state and no checkpoint is written:
\* the name is rejected before anything runs.
C29_UnknownStepFailsFast ==
  (\E s \in Steps : s \notin step_functions) =>
    /\ invoked = <<>>
    /\ ckpt = {}
    /\ stateDir = {}

(* ------------ _get_parsed_weather_dataframes, SpecFanOut (2) ----------- *)
\* results changes only in the collecting loop of the calling thread, by
\* one finished item at a time
AppendedByCaller ==
  [][(results' # results) =>
       /\ fpc = "collect"
       /\ futures' = futures
       /\ \E k \in Items \ Range(results) :
            futures[k] = "done" /\ results' = Append(results, k)]_vars

\* C30 as stated: results are added to the result collection only by the
\* calling thread and only after all workers have completed; nothing is
\* aggregated while an item is still running.
C30_Original ==
  /\ AppendedByCaller
  /\ [][(results' # results) => \A k \in Items : Finished(k)]_vars

\* C30, amended: results are added to the result list only by the calling
\* thread, one at a time as each item completes, possibly while other
\* items are still running; the workers never touch the list, and the
\* concatenation into the output frames happens only after every item has
\* completed and its result was appended.
C30_AggregationByCaller ==
  /\ AppendedByCaller
  /\ [][(fpc = "collect" /\ fpc' = "exit" /\ exc' = NoException) =>
          /\ \A k \in Items : futures[k] = "done"
          /\ Range(results) = Items
          /\ Len(results) = Len(keys)]_vars

C30_Witness ==
  /\ fpc = "collect"
  /\ Len(keys) = 3
  /\ results = <<keys[2]>>
  /\ futures[keys[1]] = "running"
  /\ futures[keys[3]] = "pending"

(* ------------------- save_step_data then load_step_data ---------------- *)
\* save_step_data has returned and nothing was started since
SaveReturned == pc = "idle" /\ payload # <<>>

\* every save of step s so far wrote all of its files
NoCutFile(s) == \A f \in DOMAIN files[s] : files[s][f].st # "partial"

\* C31: load_step_data after save_step_data(P) returns exactly the artifact
\* names of P, with no artifact left over from an earlier (completed) save
\* of the step.
C31_SaveOverwritesOldRecord ==
  (SaveReturned /\ NoCutFile(required_steps[1])) =>
    \A o \in load_step_data(required_steps[1]) :
      ~o.raised /\ DOMAIN o.data = Range(payload)

\* the form in which a file of a state directory holds data
Form(f) == IF f = "raw_data.json" THEN "document" ELSE "table"

\* the step of the save_step_data call that returned last
saved == required_steps[1]

\* C32 as stated: the payload of the first step of the pipeline, whatever
\* its name, is stored as one document, and the payload of every other
\* step as one artifact per table.
C32_Original ==
  SaveReturned =>
    \A f \in Range(payload) :
      Form(f) = IF saved = pipeline_steps[1] THEN "document" ELSE "table"

\* C32, amended: the payload of the step named 'extract', wherever it
\* stands in the pipeline order, is stored as one opaque document, and the
\* payload of every other step, the first one included, as one artifact per
\* named table; load_step_data reads each step in the form save_step_data
\* wrote it, and returns every table of the payload as that save wrote it.
C32_FormFollowsStepName ==
  (SaveReturned /\ NoCutFile(saved)) =>
    /\ \A f \in Range(payload) :
         Form(f) = IF saved = "extract" THEN "document" ELSE "table"
    /\ saved = "extract" => Len(payload) = 1
    /\ \A o \in load_step_data(saved) :
         /\ ~o.raised
         /\ \A f \in Range(payload) : f \in DOMAIN o.data /\ o.data[f] = run
    /\ (load_step = saved /\ ~loaded.raised) =>
         \A f \in DOMAIN loaded.data :
           Form(f) = IF saved = "extract" THEN "document" ELSE "table"

\* a first step that is not 'extract' was saved as two tables and loaded
C32_Witness ==
  /\ SaveReturned
  /\ pipeline_steps[1] = "transform"
  /\ saved = "transform"
  /\ Len(payload) = 2
  /\ load_step = saved
  /\ loaded = Loaded([f \in Range(payload) |-> run])

(* ------------------------- order of the cleanup ------------------------ *)
\* a step directory or one of its files disappears
StateEntryRemoved ==
  \/ \E s \in stateDir : s \notin stateDir'
  \/ \E s \in Steps : \E f \in DOMAIN files[s] :
       files[s][f].st # "absent" /\ files'[s][f].st = "absent"

\* C33: cleanup removes every checkpoint marker before it removes any state
\* entry, so at every point of cleanup, and after a crash at any such
\* point, each remaining checkpoint still has its state directory.
C33_CleanupRemovesMarkersFirst ==
  /\ [][StateEntryRemoved => (pc = "cleanup" /\ ckpt = {})]_vars
  /\ [][\A s \in ckpt' : s \in stateDir']_vars

\* killed in the middle of cleanup: one marker is left, and so is its state
C33_Witness ==
  /\ pc = "crashed"
  /\ ckpt = {"load"}
  /\ stateDir = Steps
  /\ StateComplete("load")

(* --------------------- the set of checkpoint markers ------------------- *)
\* the steps of done are the first steps of the pipeline order
PrefixOfOrder(done) == \E k \in 0..N : done = Prefix(k)

Contiguous(p) ==
  \A i \in 1..(Len(p) - 1) :
    IndexOf(pipeline_steps, p[i + 1]) = IndexOf(pipeline_steps, p[i]) + 1

\* C35: every plan the coordinator executes, also after a run that was
\* killed part-way through cleanup, is a contiguous range of the pipeline
\* order: each plan step but the first comes right after its predecessor.
C35_PlansAreContiguous ==
  pc \in Running => Contiguous(required_steps)

\* C36: for a non-empty pipeline and a call with neither failed_step nor
\* target_step, get_required_steps returns a plan, and the plan is not
\* empty, whatever markers and state directories exist.
C36_PlanIsNeverEmpty ==
  (pc = "called" /\ failed_step = None /\ target_step = None
     /\ pipeline_steps # <<>>) =>
    /\ ~result.raised
    /\ result.plan # <<>>
    /\ result.plan[1] \in Steps

\* only the last step has no marker: the plan is that step alone
C36_Witness ==
  /\ pc = "called"
  /\ failed_step = None
  /\ target_step = None
  /\ N >= 2
  /\ ckpt = Prefix(N - 1)
  /\ result = Returned(<<pipeline_steps[N]>>)

(* ------------------------------- liveness ------------------------------ *)
\* C37: when the pipeline is re-invoked after every failed run and the
\* handlers fail only finitely often, eventually one invocation completes
\* every remaining step, runs cleanup and ends in DONE.
C37_EventuallyDone == <>(pc = "done")

(* ------------- _get_parsed_weather_dataframes, SpecFanOut (3) ---------- *)
\* no key occurs twice in seq
NoDuplicate(seq) ==
  \A i, j \in 1..Len(seq) : seq[i] = seq[j] => i = j

\* C38: when every fan-out item succeeds, the collected results hold
\* exactly one result per submitted item, none lost and none duplicated,
\* in whatever order the workers complete.
C38_OneResultPerItem ==
  /\ NoDuplicate(results)
  /\ \A k \in Range(results) : k \in Items /\ futures[k] = "done"
  /\ fpc = "returned" =>
       /\ Range(results) = Items
       /\ Len(results) = Len(keys)
  /\ (keys # <<>> /\ \A k \in Items : missing[k] = None) => fpc # "raised"

\* three items that complete in another order than they were submitted
C38_Witness ==
  /\ fpc = "returned"
  /\ Len(keys) = 3
  /\ \A k \in Items : missing[k] = None
  /\ results = <<keys[3], keys[1], keys[2]>>

(* --------------------------- planning, frame --------------------------- *)
\* C39: check_pipeline_state and get_required_steps leave the checkpoint
\* store and the state store as they found them, for every input, whether
\* they return a plan or raise.
C39_PlanningIsReadOnly ==
  [][(pc = "idle" /\ pc' = "called") =>
       /\ ckpt' = ckpt
       /\ stateDir' = stateDir
       /\ files' = files
       /\ dirs' = dirs
       /\ metaFile' = metaFile]_vars

\* a call that raised on a namespace with a marker that has no state
C39_Witness ==
  /\ pc = "called"
  /\ result.raised
  /\ \E s \in ckpt : s \notin stateDir
  /\ stateDir # {}

====
